---- MODULE Spec2Model ----
(***************************************************************************)
(* A model of five parts of fornjot:                                       *)
(*   - JoinCycle::add_joined_edges and JoinCycle::join_to                  *)
(*     (crates/fj-core/src/operations/join/cycle.rs),                      *)
(*   - the cached curve approximation                                     *)
(*     (crates/fj-kernel/src/algorithms/approx/curve.rs),                  *)
(*   - the sweep of a half-edge into a face                                *)
(*     (crates/fj-kernel/src/algorithms/sweep/edge.rs),                    *)
(*   - the edge of the isosurface grid                                     *)
(*     (fj/src/geometry/isosurface/edge.rs),                               *)
(*   - the input handler of the viewer                                     *)
(*     (crates/fj-viewer/src/input/handler.rs).                            *)
(* Each part has its own specification (SpecJoin, SpecApprox, SpecSweep,   *)
(* SpecEdge, SpecHandler) over its own variables; the other variables      *)
(* stay idle.                                                              *)
(* A panic ends the behaviour: once an operation has panicked no further   *)
(* operation is taken.                                                     *)
(***************************************************************************)
EXTENDS Integers, Sequences, FiniteSets, TLC

VARIABLES
    services,    \* join: the object store, [edges, nCurves, nVertices]
    cycleSelf,   \* join: the cycle `self`, a sequence of edge handles
    cycleOther,  \* join: the cycle `other`, a sequence of edge handles
    joinCall,    \* join: the operation that has run, its arguments and outcome
    curveCache,  \* approx: CurveCache.inner, (global curve, range) -> points
    approxRuns,  \* approx: per cache key, the runs of approx_global_curve
    approxLog,   \* approx: the calls of approx_with_cache and their results
    sweepPath,   \* sweep: the path of the sweep, a vector
    sweepCache,  \* sweep: SweepCache, vertex -> its swept (edge, vertices)
    objects,     \* sweep: the object store, [vertices, nGlobalEdges]
    sweepLog,    \* sweep: the half-edge sweeps made and their results
    isoOriginal, \* edge: the Edge<Value> as it was constructed
    isoEdge,     \* edge: the Edge<Value> after the reversals made
    isoReversals,\* edge: the number of reverse() calls made
    isoLog,      \* edge: the at_surface() calls made and their results
    handler,     \* handler: the Handler, [cursor, movement, rotation, zoom]
    actions,     \* handler: the Actions handed to handle_event
    handled      \* handler: the calls made on the Handler, in order

joinVars == <<services, cycleSelf, cycleOther, joinCall>>
approxVars == <<curveCache, approxRuns, approxLog>>
sweepVars == <<sweepPath, sweepCache, objects, sweepLog>>
isoVars == <<isoOriginal, isoEdge, isoReversals, isoLog>>
handlerVars == <<handler, actions, handled>>

(***************************************************************************)
(* Bounds                                                                  *)
(***************************************************************************)
\* the longest cycle built by Init
MaxLen == 3
\* the largest index a range of join_to names (beyond MaxLen: indices wrap)
MaxIndex == 4
\* the longest sequence of triples handed to add_joined_edges
MaxTriples == 2
\* the largest curve parameter a range of an approximation names
MaxParam == 2
\* the number of approx_with_cache calls made through one cache
MaxCalls == 2
\* the number of half-edges of the swept cycle
NumEdges == 3
\* the number of half-edge sweeps made through one sweep cache
MaxSweeps == 3
\* the largest magnitude of an endpoint value of an isosurface edge
MaxValue == 2
\* the number of reverse() calls made on one isosurface edge
MaxReversals == 2
\* the number of at_surface() calls made on one isosurface edge
MaxQueries == 2
\* the number of calls made on one Handler
MaxEvents == 3

\* Option::None for a handle (handles are positive)
None == 0

\* the local paths and curve boundaries handed to add_joined_edges
Paths == {1, 2}
Boundaries == {1, 2}

(***************************************************************************)
(* The object store and the edge/cycle operations used by the join.        *)
(* A handle of an edge is its position in services.edges; an edge is       *)
(* [path, boundary, curve, start_vertex], curve and start_vertex being     *)
(* handles of a curve and of a vertex.                                     *)
(***************************************************************************)
EdgeOf(svc, h) == svc.edges[h]

\* Insert::insert: a new object gets a new handle
Insert(svc, edge) ==
    [svc |-> [svc EXCEPT !.edges = Append(@, edge)],
     handle |-> Len(svc.edges) + 1]

\* Edge::unjoined: an edge on a new curve, starting at a new vertex
Unjoined(path, boundary, svc) ==
    [edge |-> [path |-> path, boundary |-> boundary,
               curve |-> svc.nCurves + 1,
               start_vertex |-> svc.nVertices + 1],
     svc |-> [svc EXCEPT !.nCurves = @ + 1, !.nVertices = @ + 1]]

ReplaceCurve(edge, curve) == [edge EXCEPT !.curve = curve]

ReplaceStartVertex(edge, vertex) == [edge EXCEPT !.start_vertex = vertex]

\* Cycle::nth_edge: the edge at a 0-based index, None beyond the end
NthEdge(cycle, index) ==
    IF index < Len(cycle) THEN cycle[index + 1] ELSE None

\* Cycle::index_of: the 0-based position of the first occurrence, -1 for None
IndexOf(cycle, edge) ==
    IF \E i \in 1..Len(cycle) : cycle[i] = edge
    THEN (CHOOSE i \in 1..Len(cycle) :
              /\ cycle[i] = edge
              /\ \A j \in 1..(i - 1) : cycle[j] # edge) - 1
    ELSE -1

\* Cycle::half_edge_after: the edge following `edge` cyclically, None when
\* the cycle does not contain `edge`
HalfEdgeAfter(cycle, edge) ==
    LET i == IndexOf(cycle, edge)
    IN  IF i < 0 THEN None ELSE cycle[((i + 1) % Len(cycle)) + 1]

\* UpdateCycle::replace_half_edge: n counts the replacements made; the
\* operation panics unless it replaces exactly one half-edge
ReplaceHalfEdge(cycle, original, replacement) ==
    [cycle |-> [i \in 1..Len(cycle) |->
                    IF cycle[i] = original THEN replacement ELSE cycle[i]],
     n |-> Cardinality({i \in 1..Len(cycle) : cycle[i] = original})]

\* UpdateCycle::add_half_edges: the cycle with the edges appended
AddHalfEdges(cycle, new) == cycle \o new

(***************************************************************************)
(* JoinCycle::add_joined_edges                                             *)
(***************************************************************************)
\* itertools' circular_tuple_windows over n items: the windows
\* (x1,x2), (x2,x3), ..., (xn,x1), as pairs of positions; one window (x1,x1)
\* for a single item, none for no item
CircularTupleWindows(n) ==
    [k \in 1..n |-> <<k, (k % n) + 1>>]

\* the closure of add_joined_edges on the window (prev, (half_edge, curve,
\* boundary)): a new unjoined edge that takes half_edge's curve and prev's
\* start vertex
MutJoinedEdgeOwnVertex(prev, triple, svc) ==
    LET u == Unjoined(triple[2], triple[3], svc)
        e == ReplaceStartVertex(
                 ReplaceCurve(u.edge, EdgeOf(svc, triple[1]).curve),
                 EdgeOf(svc, triple[1]).start_vertex)
    IN  Insert(u.svc, e)

JoinedEdge(prev, triple, svc) ==
    LET u == Unjoined(triple[2], triple[3], svc)
        e == ReplaceStartVertex(
                 ReplaceCurve(u.edge, EdgeOf(svc, triple[1]).curve),
                 EdgeOf(svc, prev[1]).start_vertex)
    IN  Insert(u.svc, e)

RECURSIVE MapWindows(_, _, _, _)
\* the iterator handed to add_half_edges, run window by window from window k
MapWindows(triples, k, svc, new) ==
    IF k > Len(triples)
    THEN [svc |-> svc, new |-> new]
    ELSE LET w == CircularTupleWindows(Len(triples))[k]
             r == JoinedEdge(triples[w[1]], triples[w[2]], svc)
         IN  MapWindows(triples, k + 1, r.svc, Append(new, r.handle))

AddJoinedEdgesOp(self, triples, svc) ==
    LET r == MapWindows(triples, 1, svc, <<>>)
    IN  [kind |-> "ok", msg |-> "", cycle |-> AddHalfEdges(self, r.new),
         svc |-> r.svc, lookups |-> <<>>]

(***************************************************************************)
(* JoinCycle::join_to                                                      *)
(***************************************************************************)
MsgLengths == "Ranges have different lengths"
MsgOverflow == "attempt to subtract with overflow"
MsgRemZero == "attempt to calculate the remainder with a divisor of zero"
MsgIndex == "Index must be valid"
MsgContain == "Cycle must contain edge"
MsgReplace == "Expected operation to replace exactly one half-edge"

\* usize subtraction a - b without overflow checks: the value wraps to
\* 2^64 + (a - b) when a < b, written <<1, a - b>>; <<0, a - b>> otherwise.
\* For operands below 2^63 two results are equal values exactly when the
\* pairs are equal.
WrappingSub(a, b) == IF a < b THEN <<1, a - b>> ELSE <<0, a - b>>

\* the assert_eq! at the head of join_to; overflowChecks is the build's
\* setting (on in a debug build, off in a release build)
MutAssertCompareEnds(range, range_other, overflowChecks) ==
    IF overflowChecks /\ (range[2] < range[1] \/ range_other[2] < range_other[1])
    THEN MsgOverflow
    ELSE IF range[2] = range_other[2] THEN "" ELSE MsgLengths

AssertRangeLengths(range, range_other, overflowChecks) ==
    IF overflowChecks /\ (range[2] < range[1] \/ range_other[2] < range_other[1])
    THEN MsgOverflow
    ELSE IF WrappingSub(range[2], range[1])
                = WrappingSub(range_other[2], range_other[1])
         THEN ""
         ELSE MsgLengths

\* the number of items of a RangeInclusive<usize>
RangeLen(range) == IF range[1] <= range[2] THEN range[2] - range[1] + 1 ELSE 0

Min(a, b) == IF a <= b THEN a ELSE b

JoinPanic(st, msg) == [st EXCEPT !.kind = "panic", !.msg = msg]

\* one pass of the loop body, on the loop state st = [kind, msg, cycle, svc,
\* lookups]; lookups records the indices computed at the head of the body
JoinPair(st, self, other, i, j) ==
    IF Len(self) = 0 THEN JoinPanic(st, MsgRemZero) ELSE
    LET index == i % Len(self)
        index_other == j % Len(self)
        st1 == [st EXCEPT !.lookups = Append(@, <<index, index_other>>)]
        half_edge == NthEdge(self, index)
        half_edge_other == NthEdge(other, index_other)
    IN
    IF half_edge = None \/ half_edge_other = None
    THEN JoinPanic(st1, MsgIndex) ELSE
    LET vertex_a ==
            EdgeOf(st.svc, HalfEdgeAfter(other, half_edge_other)).start_vertex
        vertex_b == EdgeOf(st.svc, half_edge_other).start_vertex
        next_edge == HalfEdgeAfter(st.cycle, half_edge)
    IN
    IF next_edge = None THEN JoinPanic(st1, MsgContain) ELSE
    LET this_joined ==
            Insert(st.svc,
                ReplaceStartVertex(
                    ReplaceCurve(EdgeOf(st.svc, half_edge),
                                 EdgeOf(st.svc, half_edge_other).curve),
                    vertex_a))
        next_joined ==
            Insert(this_joined.svc,
                ReplaceStartVertex(EdgeOf(st.svc, next_edge), vertex_b))
        st2 == [st1 EXCEPT !.svc = next_joined.svc]
        r1 == ReplaceHalfEdge(st.cycle, half_edge, this_joined.handle)
        r2 == ReplaceHalfEdge(r1.cycle, next_edge, next_joined.handle)
    IN
    IF r1.n # 1 \/ r2.n # 1
    THEN JoinPanic(st2, MsgReplace)
    ELSE [st2 EXCEPT !.cycle = r2.cycle]

RECURSIVE JoinLoop(_, _, _, _, _, _)
\* the loop over range.zip(range_other), from its k-th pair (0-based) on
JoinLoop(st, self, other, range, range_other, k) ==
    IF st.kind = "panic"
       \/ k >= Min(RangeLen(range), RangeLen(range_other))
    THEN st
    ELSE JoinLoop(JoinPair(st, self, other, range[1] + k, range_other[1] + k),
                  self, other, range, range_other, k + 1)

JoinToOp(self, other, range, range_other, svc, overflowChecks) ==
    LET st0 == [kind |-> "ok", msg |-> "", cycle |-> self, svc |-> svc,
                lookups |-> <<>>]
        a == AssertRangeLengths(range, range_other, overflowChecks)
    IN  IF a # ""
        THEN JoinPanic(st0, a)
        ELSE JoinLoop(st0, self, other, range, range_other, 0)

(***************************************************************************)
(* The join specification: two cycles of distinct edges, each edge on its  *)
(* own curve and starting at its own vertex, then one operation.           *)
(***************************************************************************)
NoCall == [op |-> "none"]

InitJoinVars ==
    \E n \in 0..MaxLen, m \in 0..MaxLen :
        /\ services =
               [edges |-> [h \in 1..(n + m) |->
                              [path |-> 0, boundary |-> 0,
                               curve |-> h, start_vertex |-> h]],
                nCurves |-> n + m,
                nVertices |-> n + m]
        /\ cycleSelf = [i \in 1..n |-> i]
        /\ cycleOther = [i \in 1..m |-> n + i]
        /\ joinCall = NoCall

IdleJoinVars ==
    /\ services = [edges |-> <<>>, nCurves |-> 0, nVertices |-> 0]
    /\ cycleSelf = <<>>
    /\ cycleOther = <<>>
    /\ joinCall = NoCall

Ranges == (0..MaxIndex) \X (0..MaxIndex)

Triples == {t \in (1..(2 * MaxLen)) \X Paths \X Boundaries :
                \E i \in 1..Len(cycleOther) : cycleOther[i] = t[1]}

TripleSeqs == UNION {[1..n -> Triples] : n \in 0..MaxTriples}

JoinTo ==
    /\ joinCall.op = "none"
    /\ \E range \in Ranges, range_other \in Ranges, overflowChecks \in BOOLEAN :
         LET out == JoinToOp(cycleSelf, cycleOther, range, range_other,
                             services, overflowChecks)
         IN  /\ joinCall' = [op |-> "join_to", range |-> range,
                             range_other |-> range_other,
                             overflowChecks |-> overflowChecks,
                             kind |-> out.kind, msg |-> out.msg,
                             cycle |-> out.cycle, lookups |-> out.lookups,
                             before |-> services]
             /\ services' = out.svc
    /\ UNCHANGED <<cycleSelf, cycleOther>>

AddJoinedEdges ==
    /\ joinCall.op = "none"
    /\ \E triples \in TripleSeqs :
         LET out == AddJoinedEdgesOp(cycleSelf, triples, services)
         IN  /\ joinCall' = [op |-> "add_joined_edges", edges |-> triples,
                             kind |-> out.kind, msg |-> out.msg,
                             cycle |-> out.cycle, before |-> services]
             /\ services' = out.svc
    /\ UNCHANGED <<cycleSelf, cycleOther>>

(***************************************************************************)
(* Geometry of the approximation. Scalars are integers. A curve parameter  *)
(* on a circle counts quarter turns, so that the points of a circle at     *)
(* whole parameters have whole coordinates.                                *)
(***************************************************************************)
Cos4(t) == CASE t % 4 = 0 -> 1 [] t % 4 = 2 -> -1 [] OTHER -> 0
Sin4(t) == CASE t % 4 = 1 -> 1 [] t % 4 = 3 -> -1 [] OTHER -> 0

\* SurfacePath::point_from_path_coords: a point of the surface, <<u, v>>
PointFromPathCoords(path, t) ==
    IF path.kind = "line"
    THEN <<path.origin[1] + path.direction[1] * t,
           path.origin[2] + path.direction[2] * t>>
    ELSE <<path.center[1] + path.radius * Cos4(t),
           path.center[2] + path.radius * Sin4(t)>>

\* GlobalPath::point_from_path_coords: a point of space, <<x, y, z>>
GlobalPointFromPathCoords(path, t) ==
    IF path.kind = "line"
    THEN <<path.origin[1] + path.direction[1] * t,
           path.origin[2] + path.direction[2] * t,
           path.origin[3] + path.direction[3] * t>>
    ELSE <<path.radius * Cos4(t), path.radius * Sin4(t), 0>>

\* Surface::point_from_surface_coords: the u-path at u, moved by v along
\* the surface's v vector
PointFromSurfaceCoords(surface, p) ==
    LET o == GlobalPointFromPathCoords(surface.u, p[1])
    IN  <<o[1] + surface.v[1] * p[2],
          o[2] + surface.v[2] * p[2],
          o[3] + surface.v[3] * p[2]>>

CeilDiv(a, b) == -((-a) \div b)

\* the angle between two samples of a circle, in quarter turns. A
\* tolerance is written as the increment it allows on a circle of radius 1:
\* 2 (half a turn) for tolerance 1, 1 (a quarter turn) for 1 - cos(TAU/8).
Increment(tolerance) == tolerance

\* the parameters at which a circle is sampled over a range: the multiples
\* of the increment strictly inside the range, in the range's direction
SampleParams(range, tolerance) ==
    LET inc == Increment(tolerance)
        a == range[1]
        b == range[2]
        lo == ((IF a < b THEN a ELSE b) \div inc) + 1
        hi == CeilDiv(IF a < b THEN b ELSE a, inc) - 1
        n == IF hi >= lo THEN hi - lo + 1 ELSE 0
    IN  [k \in 1..n |-> inc * (IF b < a THEN hi - (k - 1) ELSE lo + (k - 1))]

\* Approx for (SurfacePath, RangeOnPath): no point for a line, the samples
\* (parameter, surface point) for a circle
ApproxSurfacePath(path, range, tolerance) ==
    IF path.kind = "line"
    THEN <<>>
    ELSE LET ts == SampleParams(range, tolerance)
         IN  [k \in 1..Len(ts) |-> <<ts[k], PointFromPathCoords(path, ts[k])>>]

\* Approx for (GlobalPath, RangeOnPath)
ApproxGlobalPath(path, range, tolerance) ==
    IF path.kind = "line"
    THEN <<>>
    ELSE LET ts == SampleParams(range, tolerance)
         IN  [k \in 1..Len(ts) |->
                 <<ts[k], GlobalPointFromPathCoords(path, ts[k])>>]

\* scalar division, for the divisors the lines of the model have
Div(x, d) == IF d = 1 THEN x ELSE IF d = -1 THEN -x ELSE x \div d

(***************************************************************************)
(* approx_global_curve and approx_with_cache                               *)
(***************************************************************************)
MsgTodo == "Approximating a circle on a curved surface not supported yet."

\* approx_global_curve with the line case sampling the u-image of the range
\* whatever the u-path of the surface is
MutApproxGlobalCurveSamplesLine(curve, range, tolerance) ==
    IF curve.path.kind = "circle" /\ curve.surface.u.kind = "circle"
    THEN [kind |-> "panic", msg |-> MsgTodo, points |-> <<>>]
    ELSE IF curve.path.kind = "circle"
    THEN LET a == ApproxSurfacePath(curve.path, range, tolerance)
         IN  [kind |-> "ok", msg |-> "",
              points |-> [k \in 1..Len(a) |->
                  [local_form |-> a[k][1],
                   global_form |->
                       PointFromSurfaceCoords(curve.surface, a[k][2])]]]
    ELSE LET line == curve.path
             range_u == <<PointFromPathCoords(curve.path, range[1])[1],
                          PointFromPathCoords(curve.path, range[2])[1]>>
             approx_u == SampleParams(range_u, tolerance)
         IN  [kind |-> "ok", msg |-> "",
              points |-> [k \in 1..Len(approx_u) |->
                  LET u == approx_u[k]
                      t == Div(u - line.origin[1], line.direction[1])
                      point_surface == PointFromPathCoords(curve.path, t)
                  IN  [local_form |-> u,
                       global_form |->
                           PointFromSurfaceCoords(curve.surface,
                                                  point_surface)]]]

\* approx_global_curve: [kind, msg, points], a point being
\* [local_form, global_form]
ApproxGlobalCurve(curve, range, tolerance) ==
    IF curve.path.kind = "circle" /\ curve.surface.u.kind = "circle"
    THEN [kind |-> "panic", msg |-> MsgTodo, points |-> <<>>]
    ELSE IF curve.path.kind = "circle"
    THEN LET a == ApproxSurfacePath(curve.path, range, tolerance)
         IN  [kind |-> "ok", msg |-> "",
              points |-> [k \in 1..Len(a) |->
                  [local_form |-> a[k][1],
                   global_form |->
                       PointFromSurfaceCoords(curve.surface, a[k][2])]]]
    ELSE LET line == curve.path
             range_u == <<PointFromPathCoords(curve.path, range[1])[1],
                          PointFromPathCoords(curve.path, range[2])[1]>>
             approx_u == ApproxGlobalPath(curve.surface.u, range_u, tolerance)
         IN  [kind |-> "ok", msg |-> "",
              points |-> [k \in 1..Len(approx_u) |->
                  LET u == approx_u[k][1]
                      t == Div(u - line.origin[1], line.direction[1])
                      point_surface == PointFromPathCoords(curve.path, t)
                  IN  [local_form |-> u,
                       global_form |->
                           PointFromSurfaceCoords(curve.surface,
                                                  point_surface)]]]

\* CurveCache::get: None is written as the empty set of hits
MutCacheGetNothing(cache, key) == {}

CacheGet(cache, key) ==
    IF key \in DOMAIN cache THEN {cache[key]} ELSE {}

\* CurveCache::insert
CacheInsert(cache, key, approx) ==
    [k \in DOMAIN cache \cup {key} |-> IF k = key THEN approx ELSE cache[k]]

\* the points approx_with_cache returns for the points of the global curve:
\* [local_form, global_form, source], source being the curve parameter
CurveApproxPoints(curve, points) ==
    [k \in 1..Len(points) |->
        [local_form |-> PointFromPathCoords(curve.path, points[k].local_form),
         global_form |-> points[k].global_form,
         source |-> points[k].local_form]]

\* approx_with_cache on (curve, range): [kind, msg, points, cache, ran],
\* ran telling whether approx_global_curve was run
ApproxWithCacheOp(curve, range, tolerance, cache) ==
    LET cache_key == <<curve.global_form, range>>
        hit == CacheGet(cache, cache_key)
        fresh == ApproxGlobalCurve(curve, range, tolerance)
    IN  IF hit # {}
        THEN [kind |-> "ok", msg |-> "",
              points |-> CurveApproxPoints(curve, (CHOOSE a \in hit : TRUE)),
              cache |-> cache, ran |-> FALSE]
        ELSE IF fresh.kind = "panic"
        THEN [kind |-> "panic", msg |-> fresh.msg, points |-> <<>>,
              cache |-> cache, ran |-> TRUE]
        ELSE [kind |-> "ok", msg |-> "",
              points |-> CurveApproxPoints(curve, fresh.points),
              cache |-> CacheInsert(cache, cache_key, fresh.points),
              ran |-> TRUE]

(***************************************************************************)
(* The approximation specification: the curves of the tests of curve.rs    *)
(* and their neighbours, approximated through one cache.                   *)
(***************************************************************************)
XAxis == [kind |-> "line", origin |-> <<0, 0, 0>>, direction |-> <<1, 0, 0>>]
UnitCircle == [kind |-> "circle", radius |-> 1]

FlatSurface == [u |-> XAxis, v |-> <<0, 0, 1>>]
CurvedSurface == [u |-> UnitCircle, v |-> <<0, 0, 1>>]

LineFromPoints(a, b) ==
    [kind |-> "line", origin |-> a,
     direction |-> <<b[1] - a[1], b[2] - a[2]>>]

CirclePath == [kind |-> "circle", center |-> <<0, 0>>, radius |-> 1]

\* the curves; two curves with one global_form are two local forms of the
\* same global curve
Curves ==
    { [id |-> "circle_on_flat", surface |-> FlatSurface,
       path |-> CirclePath, global_form |-> 1],
      [id |-> "circle_on_curved", surface |-> CurvedSurface,
       path |-> CirclePath, global_form |-> 1],
      [id |-> "line_along_curve", surface |-> CurvedSurface,
       path |-> LineFromPoints(<<0, 1>>, <<1, 1>>), global_form |-> 2],
      [id |-> "shifted_line_along_curve", surface |-> CurvedSurface,
       path |-> LineFromPoints(<<1, 1>>, <<2, 1>>), global_form |-> 2],
      [id |-> "line_not_along_curve", surface |-> CurvedSurface,
       path |-> LineFromPoints(<<1, 1>>, <<1, 2>>), global_form |-> 3],
      [id |-> "line_on_flat", surface |-> FlatSurface,
       path |-> LineFromPoints(<<1, 1>>, <<2, 1>>), global_form |-> 4],
      [id |-> "line_along_axis", surface |-> FlatSurface,
       path |-> LineFromPoints(<<0, 0>>, <<1, 0>>), global_form |-> 5] }

Tolerances == {1, 2}

\* the ranges: from 0 forward, and backward to 0
RangesOnPath ==
    {<<0, b>> : b \in 0..MaxParam} \cup {<<b, 0>> : b \in 1..MaxParam}

EmptyFunction == [k \in {} |-> 0]

InitApproxVars ==
    /\ curveCache = EmptyFunction
    /\ approxRuns = EmptyFunction
    /\ approxLog = <<>>

Panicked(log) == Len(log) > 0 /\ log[Len(log)].kind = "panic"

ApproxWithCache ==
    /\ Len(approxLog) < MaxCalls
    /\ ~Panicked(approxLog)
    /\ \E curve \in Curves, range \in RangesOnPath, tolerance \in Tolerances :
         LET out == ApproxWithCacheOp(curve, range, tolerance, curveCache)
             key == <<curve.global_form, range>>
         IN  /\ curveCache' = out.cache
             /\ approxRuns' =
                    IF out.ran
                    THEN [k \in DOMAIN approxRuns \cup {key} |->
                             IF k = key
                             THEN (IF key \in DOMAIN approxRuns
                                   THEN approxRuns[key] ELSE 0) + 1
                             ELSE approxRuns[k]]
                    ELSE approxRuns
             /\ approxLog' = Append(approxLog,
                    [curve |-> curve, range |-> range,
                     tolerance |-> tolerance, kind |-> out.kind,
                     msg |-> out.msg, points |-> out.points,
                     hit |-> ~out.ran])

(***************************************************************************)
(* The sweep of a half-edge into a face. A vertex is a handle into         *)
(* objects.vertices (its position); a global edge is a handle counted by   *)
(* objects.nGlobalEdges; a half-edge is [boundary, start_vertex,           *)
(* global_form, curve], curve being the line segment <<start, end>> it     *)
(* follows on its surface (None before it is set).                         *)
(***************************************************************************)
\* Sweep for Handle<Vertex>: the edge from the vertex to its image displaced
\* by the path, made once per vertex and sweep cache:
\* [edge, vertices, cache, objects]
SweepVertex(vertex, path, cache, objs) ==
    IF vertex \in DOMAIN cache
    THEN [edge |-> cache[vertex].edge, vertices |-> cache[vertex].vertices,
          cache |-> cache, objects |-> objs]
    ELSE LET pos == objs.vertices[vertex]
             image == Len(objs.vertices) + 1
             swept == [edge |-> objs.nGlobalEdges + 1,
                       vertices |-> <<vertex, image>>]
         IN  [edge |-> swept.edge, vertices |-> swept.vertices,
              cache |-> [v \in DOMAIN cache \cup {vertex} |->
                            IF v = vertex THEN swept ELSE cache[v]],
              objects |->
                  [vertices |-> Append(objs.vertices,
                       <<pos[1] + path[1], pos[2] + path[2],
                         pos[3] + path[3]>>),
                   nGlobalEdges |-> objs.nGlobalEdges + 1]]

\* Partial::new for a half-edge: nothing set, a global form of its own
PartialHalfEdge(global_form) ==
    [boundary |-> <<None, None>>, start_vertex |-> None,
     global_form |-> global_form, curve |-> None]

\* the global edges of the bottom, up and down half-edges
MutGlobalEdgesSwapped(edge, edge_right, edge_left) ==
    <<edge.global_form, edge_left, edge_right>>

GlobalEdges(edge, edge_right, edge_left) ==
    <<edge.global_form, edge_right, edge_left>>

\* the corners with the two upper ones exchanged
MutSurfacePointsCrossed(edge) ==
    LET a == edge.boundary[1]
        b == edge.boundary[2]
    IN  <<<<a, 0>>, <<b, 0>>, <<a, 1>>, <<b, 1>>>>

\* the surface coordinates of the corners of the face
SurfacePoints(edge) ==
    LET a == edge.boundary[1]
        b == edge.boundary[2]
    IN  <<<<a, 0>>, <<b, 0>>, <<b, 1>>, <<a, 1>>>>

\* the boundaries of the bottom, up, top and down half-edges
SweepBoundaries(edge) ==
    LET a == edge.boundary[1]
        b == edge.boundary[2]
        c == 0
        d == 1
    IN  <<<<a, b>>, <<c, d>>, <<b, a>>, <<d, c>>>>

\* HalfEdgeBuilder::update_as_line_segment
UpdateAsLineSegment(half_edge, start, end) ==
    [half_edge EXCEPT !.curve = <<start, end>>]

\* sweep_with_cache on (edge, next_vertex, surface, color):
\* [face, edge_top, right, left, cache, objects]; the exterior of the face
\* is <<bottom, up, top, down>>
SweepEdgeOp(edge, next_vertex, path, cache, objs) ==
    LET \* four partial half-edges, each with a new global edge
        objs0 == [objs EXCEPT !.nGlobalEdges = @ + 4]
        partial == [k \in 1..4 |-> PartialHalfEdge(objs.nGlobalEdges + k)]
        a == edge.start_vertex
        b == next_vertex
        right == SweepVertex(b, path, cache, objs0)
        left == SweepVertex(a, path, right.cache, right.objects)
        c == right.vertices[2]
        d == left.vertices[2]
        global_vertices == <<a, b, c, d>>
        global_edges == GlobalEdges(edge, right.edge, left.edge)
        surface_points == SurfacePoints(edge)
        boundaries == SweepBoundaries(edge)
        withVertices == [k \in 1..4 |->
            [partial[k] EXCEPT !.boundary = boundaries[k],
                               !.start_vertex = global_vertices[k]]]
        withCurves == [k \in 1..4 |->
            UpdateAsLineSegment(withVertices[k], surface_points[k],
                                surface_points[(k % 4) + 1])]
        exterior ==
            <<[withCurves[1] EXCEPT !.global_form = global_edges[1]],
              [withCurves[2] EXCEPT !.global_form = global_edges[2]],
              withCurves[3],
              [withCurves[4] EXCEPT !.global_form = global_edges[3]]>>
    IN  [face |-> [exterior |-> exterior,
                   surface |-> [curve |-> edge.curve, path |-> path]],
         edge_top |-> exterior[3],
         right |-> [edge |-> right.edge, vertices |-> right.vertices],
         left |-> [edge |-> left.edge, vertices |-> left.vertices],
         cache |-> left.cache,
         objects |-> left.objects]

(***************************************************************************)
(* The sweep specification: the half-edges of one cycle, half-edge i       *)
(* starting at vertex i, swept in any order along one path through one     *)
(* cache.                                                                  *)
(***************************************************************************)
SweepPaths == {<<0, 0, 1>>, <<0, 0, -1>>}

\* the half-edges of the cycle that is swept
CycleEdge(i) ==
    [boundary |-> <<i - 1, i>>, start_vertex |-> i, global_form |-> i,
     curve |-> i]

InitSweepVars ==
    /\ sweepPath \in SweepPaths
    /\ sweepCache = EmptyFunction
    /\ objects = [vertices |-> [i \in 1..NumEdges |-> <<i, 0, 0>>],
                  nGlobalEdges |-> NumEdges]
    /\ sweepLog = <<>>

IdleSweepVars ==
    /\ sweepPath = <<0, 0, 0>>
    /\ sweepCache = EmptyFunction
    /\ objects = [vertices |-> <<>>, nGlobalEdges |-> 0]
    /\ sweepLog = <<>>

IdleApproxVars == InitApproxVars

SweepEdge ==
    /\ Len(sweepLog) < MaxSweeps
    /\ \E i \in 1..NumEdges, next_vertex \in 1..NumEdges :
         LET out == SweepEdgeOp(CycleEdge(i), next_vertex, sweepPath,
                                sweepCache, objects)
         IN  /\ sweepCache' = out.cache
             /\ objects' = out.objects
             /\ sweepLog' = Append(sweepLog,
                    [edge |-> CycleEdge(i), next_vertex |-> next_vertex,
                     face |-> out.face, edge_top |-> out.edge_top,
                     right |-> out.right, left |-> out.left])
    /\ UNCHANGED sweepPath

(***************************************************************************)
(* The edge of the isosurface grid, Edge<Value>. An f32 is not-a-number or *)
(* a sign bit and a magnitude, so that -0.0 and 0.0 are two values that    *)
(* compare equal.                                                          *)
(***************************************************************************)
NaN == [nan |-> TRUE, neg |-> FALSE, mag |-> 0]
Zero == [nan |-> FALSE, neg |-> FALSE, mag |-> 0]

F32 == {NaN} \cup [nan : {FALSE}, neg : BOOLEAN, mag : 0..MaxValue]

\* the number an f32 that is a number stands for
Num(x) == IF x.neg THEN -x.mag ELSE x.mag

\* the f32 comparisons <= and >: false when an operand is not a number
F32Le(x, y) == ~x.nan /\ ~y.nan /\ Num(x) <= Num(y)
F32Gt(x, y) == ~x.nan /\ ~y.nan /\ Num(x) > Num(y)

\* f32::min and f32::max: the other operand when one is not a number;
\* either operand when the two compare equal, `first` telling which
F32Min(x, y, first) ==
    IF x.nan THEN y
    ELSE IF y.nan THEN x
    ELSE IF Num(x) < Num(y) THEN x
    ELSE IF Num(y) < Num(x) THEN y
    ELSE IF first THEN x ELSE y

F32Max(x, y, first) ==
    IF x.nan THEN y
    ELSE IF y.nan THEN x
    ELSE IF Num(x) > Num(y) THEN x
    ELSE IF Num(y) > Num(x) THEN y
    ELSE IF first THEN x ELSE y

\* Edge::reverse
Reverse(edge) == [a |-> edge.b, b |-> edge.a]

\* at_surface with both comparisons strict
MutAtSurfaceStrict(edge, ties) ==
    LET min == F32Min(edge.a.value, edge.b.value, ties[1])
        max == F32Max(edge.a.value, edge.b.value, ties[2])
    IN  F32Gt(Zero, min) /\ F32Gt(max, Zero)

\* Edge<Value>::at_surface; ties tells what f32::min and f32::max return
\* for operands that compare equal
AtSurface(edge, ties) ==
    LET min == F32Min(edge.a.value, edge.b.value, ties[1])
        max == F32Max(edge.a.value, edge.b.value, ties[2])
    IN  F32Le(min, Zero) /\ F32Gt(max, Zero)

(***************************************************************************)
(* The edge specification: one edge between two values of the grid,        *)
(* reversed and asked whether it is at the surface, in any order.          *)
(***************************************************************************)
GridIndices == {<<0, 0, 0>>, <<0, 0, 1>>}

Values == [index : GridIndices, value : F32]

InitIsoVars ==
    /\ isoOriginal \in [a : Values, b : Values]
    /\ isoEdge = isoOriginal
    /\ isoReversals = 0
    /\ isoLog = <<>>

IdleIsoVars ==
    /\ isoOriginal = [a |-> [index |-> <<0, 0, 0>>, value |-> Zero],
                      b |-> [index |-> <<0, 0, 0>>, value |-> Zero]]
    /\ isoEdge = isoOriginal
    /\ isoReversals = 0
    /\ isoLog = <<>>

EdgeReverse ==
    /\ isoReversals < MaxReversals
    /\ isoEdge' = Reverse(isoEdge)
    /\ isoReversals' = isoReversals + 1
    /\ UNCHANGED <<isoOriginal, isoLog>>

EdgeAtSurface ==
    /\ Len(isoLog) < MaxQueries
    /\ \E ties \in BOOLEAN \X BOOLEAN :
         isoLog' = Append(isoLog, [edge |-> isoEdge,
                                   result |-> AtSurface(isoEdge, ties)])
    /\ UNCHANGED <<isoOriginal, isoEdge, isoReversals>>

(***************************************************************************)
(* The input handler of the viewer. Movement, Rotation and Zoom are kept   *)
(* as the sequences of the calls the Handler has made on them. An          *)
(* Option<Position> is the empty sequence or a sequence of one position.   *)
(***************************************************************************)
Nothing == <<>>
Some(position) == <<position>>

\* the keys and key states the match of handle_event names
Keys == {"Escape", "Key1", "Key2", "Key3", "MouseLeft", "MouseRight"}
KeyStates == {"Pressed", "Released"}

Positions == {<<0, 0>>, <<1, 0>>, <<1, 1>>}
Deltas == {-1, 1}

Events ==
    [kind : {"CursorMoved"}, position : Positions]
        \cup [kind : {"Key"}, key : Keys, state : KeyStates]
        \cup [kind : {"Scroll"}, delta : Deltas]

\* Handler::default
HandlerDefault ==
    [cursor |-> Nothing, movement |-> <<>>, rotation |-> <<>>, zoom |-> <<>>]

\* Actions::new
ActionsNew ==
    [exit |-> FALSE, toggle_model |-> FALSE, toggle_mesh |-> FALSE,
     toggle_debug |-> FALSE]

\* Handler::cursor
Cursor(h) == h.cursor

\* the arm of CursorMoved with the cursor stored only when there is none
MutCursorMovedKeepsFirst(h, position) ==
    IF h.cursor # Nothing
    THEN LET previous == h.cursor[1]
             diff_x == position[1] - previous[1]
             diff_y == position[2] - previous[2]
         IN  [h EXCEPT
                 !.movement = Append(@, [method |-> "apply",
                                         cursor |-> h.cursor]),
                 !.rotation = Append(@, [method |-> "apply",
                                         diff_x |-> diff_x,
                                         diff_y |-> diff_y])]
    ELSE [h EXCEPT !.cursor = Some(position)]

\* the arm of Event::CursorMoved(position)
CursorMoved(h, position) ==
    LET applied ==
            IF h.cursor # Nothing
            THEN LET previous == h.cursor[1]
                     diff_x == position[1] - previous[1]
                     diff_y == position[2] - previous[2]
                 IN  [h EXCEPT
                         !.movement = Append(@, [method |-> "apply",
                                                 cursor |-> h.cursor]),
                         !.rotation = Append(@, [method |-> "apply",
                                                 diff_x |-> diff_x,
                                                 diff_y |-> diff_y])]
            ELSE h
    IN  [applied EXCEPT !.cursor = Some(position)]

\* camera.focus_point(screen_size, self.cursor(), mesh), kept as the cursor
\* it is computed from
FocusPoint(h) == [cursor |-> Cursor(h)]

\* Handler::handle_event: [handler, actions]
HandleEventOp(h, acts, event) ==
    IF event.kind = "CursorMoved"
    THEN [handler |-> CursorMoved(h, event.position), actions |-> acts]
    ELSE IF event.kind = "Scroll"
    THEN [handler |-> [h EXCEPT !.zoom = Append(@, [method |-> "push",
                                                   delta |-> event.delta])],
          actions |-> acts]
    ELSE IF event.state = "Pressed"
    THEN CASE event.key = "Escape" ->
                [handler |-> h, actions |-> [acts EXCEPT !.exit = TRUE]]
           [] event.key = "Key1" ->
                [handler |-> h,
                 actions |-> [acts EXCEPT !.toggle_model = TRUE]]
           [] event.key = "Key2" ->
                [handler |-> h,
                 actions |-> [acts EXCEPT !.toggle_mesh = TRUE]]
           [] event.key = "Key3" ->
                [handler |-> h,
                 actions |-> [acts EXCEPT !.toggle_debug = TRUE]]
           [] event.key = "MouseLeft" ->
                [handler |-> [h EXCEPT !.rotation =
                     Append(@, [method |-> "start",
                                focus_point |-> FocusPoint(h)])],
                 actions |-> acts]
           [] event.key = "MouseRight" ->
                [handler |-> [h EXCEPT !.movement =
                     Append(@, [method |-> "start",
                                focus_point |-> FocusPoint(h),
                                cursor |-> h.cursor])],
                 actions |-> acts]
    ELSE CASE event.key = "MouseLeft" ->
                [handler |-> [h EXCEPT !.rotation =
                     Append(@, [method |-> "stop"])],
                 actions |-> acts]
           [] event.key = "MouseRight" ->
                [handler |-> [h EXCEPT !.movement =
                     Append(@, [method |-> "stop"])],
                 actions |-> acts]
           [] OTHER -> [handler |-> h, actions |-> acts]

\* Handler::update
UpdateOp(h) ==
    [h EXCEPT !.zoom = Append(@, [method |-> "apply_to_camera",
                                  focus_point |-> FocusPoint(h)])]

(***************************************************************************)
(* The handler specification: a default Handler that handles events and    *)
(* updates in any order.                                                   *)
(***************************************************************************)
InitHandlerVars ==
    /\ handler = HandlerDefault
    /\ actions = ActionsNew
    /\ handled = <<>>

IdleHandlerVars == InitHandlerVars

HandleEvent ==
    /\ Len(handled) < MaxEvents
    /\ \E event \in Events :
         LET out == HandleEventOp(handler, actions, event)
         IN  /\ handler' = out.handler
             /\ actions' = out.actions
             /\ handled' = Append(handled,
                    [call |-> "handle_event", event |-> event,
                     before |-> handler, after |-> out.handler])

Update ==
    /\ Len(handled) < MaxEvents
    /\ handler' = UpdateOp(handler)
    /\ handled' = Append(handled,
           [call |-> "update", before |-> handler,
            after |-> UpdateOp(handler)])
    /\ UNCHANGED actions

vars == <<services, cycleSelf, cycleOther, joinCall,
          curveCache, approxRuns, approxLog,
          sweepPath, sweepCache, objects, sweepLog,
          isoOriginal, isoEdge, isoReversals, isoLog,
          handler, actions, handled>>

InitJoin ==
    /\ InitJoinVars /\ IdleApproxVars /\ IdleSweepVars
    /\ IdleIsoVars /\ IdleHandlerVars

NextJoin ==
    \/ JoinTo /\ UNCHANGED <<approxVars, sweepVars, isoVars, handlerVars>>
    \/ AddJoinedEdges
           /\ UNCHANGED <<approxVars, sweepVars, isoVars, handlerVars>>

SpecJoin == InitJoin /\ [][NextJoin]_vars

InitApprox ==
    /\ IdleJoinVars /\ InitApproxVars /\ IdleSweepVars
    /\ IdleIsoVars /\ IdleHandlerVars

NextApprox ==
    ApproxWithCache /\ UNCHANGED <<joinVars, sweepVars, isoVars, handlerVars>>

SpecApprox == InitApprox /\ [][NextApprox]_vars

InitSweep ==
    /\ IdleJoinVars /\ IdleApproxVars /\ InitSweepVars
    /\ IdleIsoVars /\ IdleHandlerVars

NextSweep ==
    SweepEdge /\ UNCHANGED <<joinVars, approxVars, isoVars, handlerVars>>

SpecSweep == InitSweep /\ [][NextSweep]_vars

InitEdge ==
    /\ IdleJoinVars /\ IdleApproxVars /\ IdleSweepVars
    /\ InitIsoVars /\ IdleHandlerVars

NextEdge ==
    \/ EdgeReverse
           /\ UNCHANGED <<joinVars, approxVars, sweepVars, handlerVars>>
    \/ EdgeAtSurface
           /\ UNCHANGED <<joinVars, approxVars, sweepVars, handlerVars>>

SpecEdge == InitEdge /\ [][NextEdge]_vars

InitHandler ==
    /\ IdleJoinVars /\ IdleApproxVars /\ IdleSweepVars
    /\ IdleIsoVars /\ InitHandlerVars

NextHandler ==
    \/ HandleEvent /\ UNCHANGED <<joinVars, approxVars, sweepVars, isoVars>>
    \/ Update /\ UNCHANGED <<joinVars, approxVars, sweepVars, isoVars>>

SpecHandler == InitHandler /\ [][NextHandler]_vars

(***************************************************************************)
(* Claims about the join                                                   *)
(***************************************************************************)
IsJoinTo == joinCall.op = "join_to"

\* end - start of a range, as integers
Extent(range) == range[2] - range[1]

\* a join_to call on two non-empty cycles with ranges of one or more
\* indices and equal end - start
JoinOfEqualRanges ==
    /\ IsJoinTo
    /\ Len(cycleSelf) > 0
    /\ Len(cycleOther) > 0
    /\ joinCall.range[1] <= joinCall.range[2]
    /\ Extent(joinCall.range) = Extent(joinCall.range_other)

\* the k-th matched pair (k from 0): the position in self and in other,
\* each index modulo the length of its own cycle, 1-based
PosSelf(k) == ((joinCall.range[1] + k) % Len(cycleSelf)) + 1
PosOther(k) == ((joinCall.range_other[1] + k) % Len(cycleOther)) + 1

\* the position that follows position p cyclically in a cycle of n edges
PosAfter(p, n) == (p % n) + 1

\* C1: join_to on ranges of equal end - start returns a cycle whose
\* half-edge at every matched index i mod self.len() has the curve of
\* other's half-edge at the matched index j.
C1_JoinedCurvesMatch ==
    JoinOfEqualRanges =>
        /\ joinCall.kind = "ok"
        /\ \A k \in 0..Extent(joinCall.range) :
               EdgeOf(services, joinCall.cycle[PosSelf(k)]).curve
                   = EdgeOf(services, cycleOther[PosOther(k)]).curve

\* C2: every index of `range` is reduced modulo the length of self and
\* every index of `other_range` modulo the length of other, also when the
\* two cycles differ in length.
C2_IndicesModuloOwnLength ==
    (IsJoinTo /\ Len(cycleSelf) > 0 /\ Len(cycleOther) > 0) =>
        \A k \in 1..Len(joinCall.lookups) :
            joinCall.lookups[k] = <<PosSelf(k - 1) - 1, PosOther(k - 1) - 1>>

LengthFault == joinCall.kind = "panic" /\ joinCall.msg = MsgLengths

\* C3 as stated: join_to raises the length-mismatch fault if and only if
\* the two ranges differ in end - start.
C3_LengthFaultIffExtentsDiffer ==
    IsJoinTo =>
        (LengthFault <=> Extent(joinCall.range) # Extent(joinCall.range_other))

\* both ranges have start <= end, so that neither `end - start` overflows
ProperRanges ==
    /\ joinCall.range[1] <= joinCall.range[2]
    /\ joinCall.range_other[1] <= joinCall.range_other[2]

\* C3 (amended): for ranges with start <= end, join_to raises the
\* length-mismatch fault if and only if the ranges differ in end - start;
\* whenever it raises it, nothing has been inserted into the store.
C3_LengthFaultIffProperExtentsDiffer ==
    IsJoinTo =>
        /\ ProperRanges =>
               (LengthFault <=>
                    Extent(joinCall.range) # Extent(joinCall.range_other))
        /\ LengthFault => services = joinCall.before

C3_Witness ==
    /\ IsJoinTo
    /\ LengthFault
    /\ Len(cycleSelf) > 1
    /\ joinCall.range[1] <= joinCall.range[2]
    /\ joinCall.range_other[1] < joinCall.range_other[2]

\* C4: for every matched pair (i, j) the joined half-edge at i starts at the
\* start vertex of the half-edge after j in other, and the half-edge after i
\* starts at the start vertex of other's half-edge at j.
C4_JoinedVerticesMatch ==
    JoinOfEqualRanges =>
        /\ joinCall.kind = "ok"
        /\ \A k \in 0..Extent(joinCall.range) :
               /\ EdgeOf(services, joinCall.cycle[PosSelf(k)]).start_vertex
                    = EdgeOf(services,
                          cycleOther[PosAfter(PosOther(k), Len(cycleOther))]
                      ).start_vertex
               /\ EdgeOf(services,
                      joinCall.cycle[PosAfter(PosSelf(k), Len(cycleSelf))]
                  ).start_vertex
                    = EdgeOf(services, cycleOther[PosOther(k)]).start_vertex

IsAddJoinedEdges == joinCall.op = "add_joined_edges"

Bijections(n) ==
    {f \in [1..n -> 1..n] : \A a, b \in 1..n : f[a] = f[b] => a = b}

\* the input edge cyclically before the k-th (1-based) of n
PrevInput(k, n) == ((k + n - 2) % n) + 1

CacheKey(call) == <<call.curve.global_form, call.range>>

\* what a call returned of the global curve: per point, the curve parameter
\* and the global form
GlobalPart(call) ==
    [k \in 1..Len(call.points) |->
        [source |-> call.points[k].source,
         global_form |-> call.points[k].global_form]]

\* C6: two approximations of one (global curve, range) through one cache
\* with one tolerance return identical point sequences, and
\* approx_global_curve runs at most once per (global curve, range).
C6_CachedApproxIsReused ==
    /\ \A key \in DOMAIN approxRuns : approxRuns[key] <= 1
    /\ \A i, j \in 1..Len(approxLog) :
           (/\ i < j
            /\ CacheKey(approxLog[i]) = CacheKey(approxLog[j])
            /\ approxLog[i].tolerance = approxLog[j].tolerance) =>
               /\ approxLog[j].kind = "ok"
               /\ approxLog[j].hit
               /\ GlobalPart(approxLog[j]) = GlobalPart(approxLog[i])
               /\ approxLog[i].curve = approxLog[j].curve =>
                      approxLog[j].points = approxLog[i].points

C6_Witness ==
    /\ Len(approxLog) = 2
    /\ CacheKey(approxLog[1]) = CacheKey(approxLog[2])
    /\ approxLog[1].tolerance = approxLog[2].tolerance
    /\ approxLog[1].kind = "ok"
    /\ approxLog[2].hit
    /\ Len(approxLog[2].points) > 0

\* what approx_with_cache returns for a call through an empty cache
FreshPoints(call) ==
    ApproxWithCacheOp(call.curve, call.range, call.tolerance,
                      EmptyFunction).points

\* C7: a request at tolerance t returns the points a fresh computation at
\* t returns, also when the same (global curve, range) was approximated
\* before with another tolerance. Stated for the calls that only calls on
\* the same curve precede, so that nothing but the tolerance differs.
C7_NoStaleTolerance ==
    \A j \in 1..Len(approxLog) :
        (/\ approxLog[j].kind = "ok"
         /\ \A i \in 1..(j - 1) : approxLog[i].curve = approxLog[j].curve) =>
            approxLog[j].points = FreshPoints(approxLog[j])

\* C8: approximating a circle on a surface whose u-path is a circle aborts
\* ("not supported yet") for every range, tolerance and state of the cache.
C8_CircleOnCurvedAborts ==
    \A i \in 1..Len(approxLog) :
        (/\ approxLog[i].curve.path.kind = "circle"
         /\ approxLog[i].curve.surface.u.kind = "circle") =>
            /\ approxLog[i].kind = "panic"
            /\ approxLog[i].msg = MsgTodo

\* C9: no returned point has a curve parameter equal to a boundary of the
\* requested range.
C9_BoundariesExcluded ==
    \A i \in 1..Len(approxLog) :
        \A k \in 1..Len(approxLog[i].points) :
            /\ approxLog[i].points[k].source # approxLog[i].range[1]
            /\ approxLog[i].points[k].source # approxLog[i].range[2]

(***************************************************************************)
(* Claims about the sweep                                                  *)
(***************************************************************************)
\* the vertices swept by the n-th half-edge sweep, each with what its
\* sweep returned
SweptVertices(n) ==
    {<<sweepLog[n].next_vertex, sweepLog[n].right>>,
     <<sweepLog[n].edge.start_vertex, sweepLog[n].left>>}

\* C10: a vertex swept twice through one sweep cache gives the identical
\* edge both times; so when the next vertex of one swept half-edge is the
\* start vertex of another, the right side (up) half-edge of the first face
\* and the left side (down) half-edge of the second have the identical
\* global edge; and each bottom half-edge has the global form of the
\* half-edge it was swept from.
C10_SweptFacesShareSideEdges ==
    \A i, j \in 1..Len(sweepLog) :
        /\ \A x \in SweptVertices(i), y \in SweptVertices(j) :
               x[1] = y[1] => x[2] = y[2]
        /\ sweepLog[i].next_vertex = sweepLog[j].edge.start_vertex =>
               sweepLog[i].face.exterior[2].global_form
                   = sweepLog[j].face.exterior[4].global_form
        /\ sweepLog[i].face.exterior[1].global_form
               = sweepLog[i].edge.global_form

C10_Witness ==
    /\ Len(sweepLog) >= 2
    /\ sweepLog[1].edge # sweepLog[2].edge
    /\ sweepLog[1].next_vertex = sweepLog[2].edge.start_vertex
    /\ sweepLog[1].next_vertex # sweepLog[1].edge.start_vertex
    /\ sweepLog[2].next_vertex # sweepLog[2].edge.start_vertex
    /\ sweepLog[1].face.exterior[2].global_form
           = sweepLog[2].face.exterior[4].global_form

\* the position of a vertex displaced by the sweep path
Displaced(v) ==
    <<objects.vertices[v][1] + sweepPath[1],
      objects.vertices[v][2] + sweepPath[2],
      objects.vertices[v][3] + sweepPath[3]>>

\* C11: sweeping a half-edge with boundary [a, b] gives a face whose
\* exterior has exactly four half-edges, bottom, up, top, down, which are
\* the line segments (a,0)->(b,0), (b,0)->(b,1), (b,1)->(a,1), (a,1)->(a,0)
\* on the new surface, each ending where the next starts, the last ending
\* where the first starts; their start vertices are the start vertex of the
\* edge, the next vertex, the image of the next vertex displaced by the
\* path and the image of the start vertex displaced by the path; the
\* half-edge returned is the top one.
C11_SweptFaceIsClosedQuad ==
    \A n \in 1..Len(sweepLog) :
        LET call == sweepLog[n]
            ext == call.face.exterior
            a == call.edge.boundary[1]
            b == call.edge.boundary[2]
        IN  /\ Len(ext) = 4
            /\ ext[1].curve = <<<<a, 0>>, <<b, 0>>>>
            /\ ext[2].curve = <<<<b, 0>>, <<b, 1>>>>
            /\ ext[3].curve = <<<<b, 1>>, <<a, 1>>>>
            /\ ext[4].curve = <<<<a, 1>>, <<a, 0>>>>
            /\ \A k \in 1..4 : ext[k].curve[2] = ext[(k % 4) + 1].curve[1]
            /\ ext[1].start_vertex = call.edge.start_vertex
            /\ ext[2].start_vertex = call.next_vertex
            /\ ext[3].start_vertex \notin {call.edge.start_vertex,
                                           call.next_vertex}
            /\ objects.vertices[ext[3].start_vertex]
                   = Displaced(call.next_vertex)
            /\ ext[4].start_vertex \notin {call.edge.start_vertex,
                                           call.next_vertex}
            /\ objects.vertices[ext[4].start_vertex]
                   = Displaced(call.edge.start_vertex)
            /\ call.edge_top = ext[3]

C11_Witness ==
    /\ Len(sweepLog) >= 2
    /\ sweepLog[2].edge.boundary = <<1, 2>>
    /\ sweepLog[2].next_vertex # sweepLog[2].edge.start_vertex
    /\ sweepLog[2].next_vertex \in DOMAIN sweepCache
    /\ sweepLog[1].edge.start_vertex = sweepLog[2].next_vertex
    /\ Len(sweepLog[2].face.exterior) = 4
    /\ sweepLog[2].edge_top.curve = <<<<2, 1>>, <<1, 1>>>>

(***************************************************************************)
(* Claims about the points of the curve approximation                      *)
(***************************************************************************)
\* the u-image of a range of a curve's path
RangeU(call) ==
    <<PointFromPathCoords(call.curve.path, call.range[1])[1],
      PointFromPathCoords(call.curve.path, call.range[2])[1]>>

\* the samples of the u-path of a call's surface over the u-image of its
\* range, at its tolerance
SamplesU(call) ==
    ApproxGlobalPath(call.curve.surface.u, RangeU(call), call.tolerance)

IsLineOnCurved(call) ==
    /\ call.curve.path.kind = "line"
    /\ call.curve.surface.u.kind = "circle"

\* C12: for a line on a surface whose u-path is a circle, the approximation
\* returns, in order, one point per sample of the surface's u-path over the
\* u-image of the range at the same tolerance; the surface form of each
\* point is the line evaluated at the parameter of its sample, and its
\* global form is the surface's mapping of that surface form; for every
\* line. Stated for the calls that run approx_global_curve, so that nothing
\* of an earlier call is returned.
C12_LineOnCurvedFollowsSamples ==
    \A i \in 1..Len(approxLog) :
        (IsLineOnCurved(approxLog[i]) /\ ~approxLog[i].hit) =>
            LET call == approxLog[i]
                samples == SamplesU(call)
            IN  /\ call.kind = "ok"
                /\ Len(call.points) = Len(samples)
                /\ \A k \in 1..Len(call.points) :
                       /\ call.points[k].local_form =
                              PointFromPathCoords(call.curve.path,
                                                  samples[k][1])
                       /\ call.points[k].global_form =
                              PointFromSurfaceCoords(call.curve.surface,
                                  call.points[k].local_form)

\* a line that is straight in space: any line on a surface whose u-path is
\* a line, and a line without extent in u on any surface
IsStraightInSpace(call) ==
    /\ call.curve.path.kind = "line"
    /\ \/ call.curve.surface.u.kind = "line"
       \/ call.curve.path.direction[1] = 0

\* C13: a line that is straight in space is approximated by the empty
\* sequence of points, without fault, for every range, tolerance and state
\* of the cache: any line on a flat surface, the line along the surface's
\* own axis included, and a line on a curved surface whose u-direction is
\* zero.
C13_StraightLineHasNoPoints ==
    \A i \in 1..Len(approxLog) :
        IsStraightInSpace(approxLog[i]) =>
            /\ approxLog[i].kind = "ok"
            /\ approxLog[i].points = <<>>

C13_Witness ==
    /\ Len(approxLog) = 2
    /\ approxLog[1].curve.id = "line_along_axis"
    /\ approxLog[1].range = <<0, 2>>
    /\ approxLog[2].curve.id = "line_not_along_curve"
    /\ approxLog[2].curve.path.direction[1] = 0
    /\ approxLog[2].range = <<0, 2>>
    /\ ~approxLog[2].hit
    /\ approxLog[2].kind = "ok"
    /\ approxLog[2].points = <<>>

IsCircleOnFlat(call) ==
    /\ call.curve.path.kind = "circle"
    /\ call.curve.surface.u.kind = "line"

\* C14: for a circle on a surface whose u-path is a line, the approximation
\* over a range returns, in the same order and number, the points of the
\* approximation of the circle itself over that range at the same
\* tolerance, each with the sampled surface point as its surface form and
\* the surface's mapping of that point as its global form.
C14_CircleOnFlatFollowsPath ==
    \A i \in 1..Len(approxLog) :
        IsCircleOnFlat(approxLog[i]) =>
            LET call == approxLog[i]
                samples == ApproxSurfacePath(call.curve.path, call.range,
                                             call.tolerance)
            IN  /\ call.kind = "ok"
                /\ Len(call.points) = Len(samples)
                /\ \A k \in 1..Len(call.points) :
                       /\ call.points[k].local_form = samples[k][2]
                       /\ call.points[k].global_form =
                              PointFromSurfaceCoords(call.curve.surface,
                                                     samples[k][2])

\* the same, for the calls that run approx_global_curve
C14_FreshCircleOnFlatFollowsPath ==
    \A i \in 1..Len(approxLog) :
        (IsCircleOnFlat(approxLog[i]) /\ ~approxLog[i].hit) =>
            LET call == approxLog[i]
                samples == ApproxSurfacePath(call.curve.path, call.range,
                                             call.tolerance)
            IN  /\ call.kind = "ok"
                /\ Len(call.points) = Len(samples)
                /\ \A k \in 1..Len(call.points) :
                       /\ call.points[k].local_form = samples[k][2]
                       /\ call.points[k].global_form =
                              PointFromSurfaceCoords(call.curve.surface,
                                                     samples[k][2])

(***************************************************************************)
(* The frame of the join                                                   *)
(***************************************************************************)
\* position p of self is neither a joined position nor the position that
\* follows one
OutsideJoin(p) ==
    \A k \in 0..Extent(joinCall.range) :
        /\ p # PosSelf(k)
        /\ p # PosAfter(PosSelf(k), Len(cycleSelf))

\* the cycle returned has the length of self and self's handle at every
\* position outside the join
FrameKept ==
    /\ Len(joinCall.cycle) = Len(cycleSelf)
    /\ \A p \in 1..Len(cycleSelf) :
           OutsideJoin(p) => joinCall.cycle[p] = cycleSelf[p]

\* self and other are the cycles they were, and every half-edge that was
\* in the store before the call is in it as it was
OperandsKept ==
    /\ cycleSelf = [i \in 1..Len(cycleSelf) |-> i]
    /\ cycleOther = [i \in 1..Len(cycleOther) |-> Len(cycleSelf) + i]
    /\ \A h \in DOMAIN joinCall.before.edges :
           /\ h \in DOMAIN services.edges
           /\ services.edges[h] = joinCall.before.edges[h]

\* C16: join_to on ranges of equal length returns a cycle with as many
\* half-edges as self, whose half-edge at every position that is neither a
\* joined index nor the position that cyclically follows one is the
\* identical handle of self at that position; self and other are unchanged.
C16_JoinKeepsFrame ==
    JoinOfEqualRanges =>
        /\ joinCall.kind = "ok"
        /\ FrameKept
        /\ OperandsKept

\* the same for the calls that return
JoinReturnKeepsFrame ==
    (JoinOfEqualRanges /\ joinCall.kind = "ok") =>
        /\ FrameKept
        /\ OperandsKept

\* a call that returns, with a position outside the join
JoinReturnHasFrame ==
    /\ JoinOfEqualRanges
    /\ joinCall.kind = "ok"
    /\ \E p \in 1..Len(cycleSelf) : OutsideJoin(p)
    /\ joinCall.cycle # cycleSelf

\* the input of two cycles of two half-edges joined over both indices
JoinOverTwoIndices ==
    /\ JoinOfEqualRanges
    /\ Len(cycleSelf) = 2
    /\ Len(cycleOther) = 2
    /\ joinCall.range = <<0, 1>>
    /\ joinCall.range_other = <<0, 1>>

\* that input ends in the fault of the second pass
JoinOverTwoIndicesFaults ==
    JoinOverTwoIndices =>
        (joinCall.kind = "panic" /\ joinCall.msg = MsgContain)

(***************************************************************************)
(* Claims about the isosurface edge                                        *)
(***************************************************************************)
Max(a, b) == IF a >= b THEN a ELSE b

\* the smaller of the two endpoint values is <= 0 and the larger is > 0;
\* an endpoint that is not a number is neither
SpansSurface(edge) ==
    /\ ~edge.a.value.nan
    /\ ~edge.b.value.nan
    /\ Min(Num(edge.a.value), Num(edge.b.value)) <= 0
    /\ Max(Num(edge.a.value), Num(edge.b.value)) > 0

\* C15: at_surface is true exactly when the smaller endpoint value is <= 0
\* and the larger is > 0 (false from a negative value to 0, true from 0 to
\* a positive value); it gives the same result for an edge and for its
\* reverse; reverse applied twice gives back the original edge.
C15_AtSurfaceSymmetric ==
    /\ \A i \in 1..Len(isoLog) :
           isoLog[i].result = SpansSurface(isoLog[i].edge)
    /\ \A i, j \in 1..Len(isoLog) :
           isoLog[j].edge = Reverse(isoLog[i].edge) =>
               isoLog[j].result = isoLog[i].result
    /\ isoReversals % 2 = 0 => isoEdge = isoOriginal
    /\ isoReversals % 2 = 1 => isoEdge = Reverse(isoOriginal)

C15_Witness ==
    /\ Len(isoLog) = 2
    /\ isoLog[1].edge.a.value = Zero
    /\ Num(isoLog[1].edge.b.value) > 0
    /\ isoLog[1].result
    /\ isoLog[2].edge = Reverse(isoLog[1].edge)
    /\ isoLog[2].result
    /\ isoReversals = 2
    /\ isoEdge = isoOriginal
    /\ isoEdge # Reverse(isoEdge)

(***************************************************************************)
(* Claims about the input handler                                          *)
(***************************************************************************)
IsCursorMoved(n) ==
    handled[n].call = "handle_event" /\ handled[n].event.kind = "CursorMoved"

\* the calls made so far that handled a CursorMoved event
CursorMoves == {n \in 1..Len(handled) : IsCursorMoved(n)}

\* the last of them
LastCursorMove == CHOOSE n \in CursorMoves : \A m \in CursorMoves : m <= n

\* the calls of `method` that a call on the Handler added to a log
Applied(before, after) ==
    {k \in (Len(before) + 1)..Len(after) : after[k].method = "apply"}

\* C17: after any sequence of handle_event calls on a default Handler,
\* cursor() is None if and only if no CursorMoved event has been handled,
\* and otherwise is the position of the last CursorMoved event; no other
\* event changes the cursor; a CursorMoved event applies the movement and
\* the rotation only when there was a cursor position before it.
C17_CursorFollowsLastMove ==
    /\ Cursor(handler) = Nothing <=> CursorMoves = {}
    /\ CursorMoves # {} =>
           Cursor(handler) = Some(handled[LastCursorMove].event.position)
    /\ \A n \in 1..Len(handled) :
           LET b == handled[n].before
               a == handled[n].after
               moved == Applied(b.movement, a.movement)
               rotated == Applied(b.rotation, a.rotation)
           IN  IF IsCursorMoved(n)
               THEN /\ (moved # {} \/ rotated # {}) => b.cursor # Nothing
                    /\ b.cursor # Nothing => (moved # {} /\ rotated # {})
               ELSE /\ a.cursor = b.cursor
                    /\ moved = {}
                    /\ rotated = {}

C17_Witness ==
    /\ Len(handled) = 3
    /\ IsCursorMoved(1)
    /\ handled[1].after.movement = <<>>
    /\ handled[1].after.rotation = <<>>
    /\ handled[2].call = "handle_event"
    /\ handled[2].event.kind = "Key"
    /\ handled[2].event.key = "MouseRight"
    /\ handled[2].event.state = "Pressed"
    /\ IsCursorMoved(3)
    /\ handled[3].event.position # handled[1].event.position
    /\ Cursor(handler) = Some(handled[3].event.position)
    /\ Len(handler.movement) = 2
    /\ Len(handler.rotation) = 1

====
